---------------------------- MODULE Spec2Model ----------------------------
(***************************************************************************)
(* The alert subsystem of the environmental-monitoring server: the        *)
(* in-memory store (MemStorage), the insert schema of the alerts table    *)
(* and the two alert routes registered by registerRoutes.                 *)
(*                                                                         *)
(* The specifications share the state:                                     *)
(*   StoreSpec  the store's methods called directly, in any order;         *)
(*   Spec       the HTTP routes, whose handlers interleave at their await  *)
(*              points;                                                    *)
(*   RefSpec    a caller of the store that keeps and changes the objects   *)
(*              the methods returned;                                      *)
(*   FaultSpec  the HTTP routes over a store whose calls fail;             *)
(*   EnvSpec    the store's methods with getEnvironmentalData, from every  *)
(*              draw of the constructor's random values;                   *)
(*   EnvRouteSpec  the three environmental routes;                         *)
(*   UserSpec   all six methods of the store;                              *)
(*   AnswerSpec the alert routes with every request kept on record;        *)
(*   StartupSpec  the server process from its start to listening;          *)
(*   ConfigSpec, ConfigFairSpec  the client's AlertConfiguration           *)
(*              component;                                                 *)
(*   DashboardSpec  the client's EnvironmentalDashboard page.              *)
(***************************************************************************)
EXTENDS Integers, Sequences, FiniteSets, TLC

VARIABLES
    users,        \* MemStorage.users: a Map, as its entries in insertion order
    alerts,       \* MemStorage.alerts: a Map, as its entries in insertion order
    currentId,    \* MemStorage.currentId
    now,          \* the clock's reading at the latest new Date()
    intColumn,    \* whether the build's drizzle-zod maps an integer column to
                  \* an int32 check (0.6 and later) or to a plain number (0.5)
    environmentalData,  \* MemStorage.environmentalData: a Map, as its entries
    reqs,         \* the requests whose handler is suspended at an await
    response,     \* the response sent last, with the request it answers
    last,         \* the store method called last, with its argument and result
    proc,         \* the server process: its position in index.ts, the
                  \* SESSION_SECRET it read, what is installed on the app
    component,    \* the state of the client's AlertConfiguration component
                  \* and its handlers suspended at an await
    dashboard     \* the state of the client's EnvironmentalDashboard page and
                  \* its refreshes in flight

vars ==
    <<users, alerts, currentId, now, intColumn, environmentalData, reqs,
      response, last, proc, component, dashboard>>

storeVars == <<users, alerts, currentId>>

(***************************************************************************)
(* Bounds of the model.                                                    *)
(***************************************************************************)
MaxId == 3        \* ids handed out: creations stop once currentId exceeds it
MaxTime == 0      \* the clock shows 0..MaxTime: at 0 all readings fall in one instant
MaxReqs == 2      \* handlers suspended at the same time

(***************************************************************************)
(* JavaScript values.  Every value is a record tagged with its JavaScript *)
(* type, so that two values of different types compare unequal (===)      *)
(* instead of being incomparable.  A number is the fraction n/d in lowest *)
(* terms.                                                                  *)
(***************************************************************************)
Num(n) == [k |-> "number", n |-> n, d |-> 1]
Frac(n, d) == [k |-> "number", n |-> n, d |-> d]
Str(s) == [k |-> "string", s |-> s]
Bool(b) == [k |-> "boolean", b |-> b]
Null == [k |-> "null"]
DateOf(t) == [k |-> "date", t |-> t]
\* what JSON.stringify makes of a Date: its ISO string
IsoString(t) == [k |-> "string", s |-> "ISO-8601", t |-> t]

\* Number.isInteger
IsInteger(v) == v.k = "number" /\ v.d = 1

\* a number within -2^31 .. 2^31 - 1
InInt32(v) ==
    /\ v.k = "number"
    /\ v.n >= (-2147483647 - 1) * v.d
    /\ v.n <= 2147483647 * v.d

\* { ...a, ...b }: the fields of both, b's value where both have the field
Spread(a, b) ==
    [f \in (DOMAIN a) \cup (DOMAIN b) |-> IF f \in DOMAIN b THEN b[f] ELSE a[f]]

(***************************************************************************)
(* Map: entries [key, value] in insertion order.                           *)
(***************************************************************************)
MapHas(m, key) == \E i \in 1..Len(m) : m[i].key = key

\* a set that puts a new key in front of the others
MapSet_Front(m, key, value) ==
    IF MapHas(m, key)
    THEN [i \in 1..Len(m) |->
            IF m[i].key = key THEN [key |-> key, value |-> value] ELSE m[i]]
    ELSE <<[key |-> key, value |-> value]>> \o m

\* Map.prototype.set: a present key keeps its place and gets the new value
MapSet(m, key, value) ==
    IF MapHas(m, key)
    THEN [i \in 1..Len(m) |->
            IF m[i].key = key THEN [key |-> key, value |-> value] ELSE m[i]]
    ELSE Append(m, [key |-> key, value |-> value])

\* Array.from(m.values())
MapValues(m) == [i \in 1..Len(m) |-> m[i].value]

MapKeys(m) == [i \in 1..Len(m) |-> m[i].key]

(***************************************************************************)
(* MemStorage.                                                             *)
(***************************************************************************)
\* the user record given the counter's value after the increment as its id
NewUser_IdAfterIncrement(insertUser) ==
    Spread(insertUser, [id |-> Num(currentId + 1), isAdmin |-> Bool(FALSE)])

\* createUser: the user record it builds
NewUser(insertUser) ==
    Spread(insertUser, [id |-> Num(currentId), isAdmin |-> Bool(FALSE)])

\* createUser taking its id without advancing the counter
createUser_NoIncrement(insertUser) ==
    [users     |-> MapSet(users, currentId, NewUser(insertUser)),
     alerts    |-> alerts,
     currentId |-> currentId,
     ret       |-> NewUser(insertUser)]

\* createUser starting the alert map anew
createUser_ClearsAlerts(insertUser) ==
    [users     |-> MapSet(users, currentId, NewUser(insertUser)),
     alerts    |-> <<>>,
     currentId |-> currentId + 1,
     ret       |-> NewUser(insertUser)]

\* createUser(insertUser): the store after the call and the value returned
createUser(insertUser) ==
    [users     |-> MapSet(users, currentId, NewUser(insertUser)),
     alerts    |-> alerts,
     currentId |-> currentId + 1,
     ret       |-> NewUser(insertUser)]

\* the alert record built field by field, the threshold forgotten
NewAlert_NoThreshold(data) ==
    [id |-> Num(currentId), type |-> data.type, userId |-> data.userId,
     active |-> Bool(TRUE), createdAt |-> DateOf(now')]

\* the alert record with the caller's data spread last
NewAlert_DataLast(data) ==
    Spread(Spread([id |-> Num(currentId)],
                  [active |-> Bool(TRUE), createdAt |-> DateOf(now')]),
           data)

\* the alert record built without the active flag
NewAlert_NoActive(data) ==
    Spread(Spread([id |-> Num(currentId)], data), [createdAt |-> DateOf(now')])

\* createAlert: the alert record it builds
NewAlert(data) ==
    Spread(Spread([id |-> Num(currentId)], data),
           [active |-> Bool(TRUE), createdAt |-> DateOf(now')])

\* createAlert reading the counter without advancing it
createAlert_NoIncrement(data) ==
    [users     |-> users,
     alerts    |-> MapSet(alerts, currentId, NewAlert(data)),
     currentId |-> currentId,
     ret       |-> NewAlert(data)]

\* createAlert storing the record under the counter's value after the increment
createAlert_KeyAfterIncrement(data) ==
    [users     |-> users,
     alerts    |-> MapSet(alerts, currentId + 1, NewAlert(data)),
     currentId |-> currentId + 1,
     ret       |-> NewAlert(data)]

\* createAlert storing the record under its owner's id
createAlert_KeyUserId(data) ==
    [users     |-> users,
     alerts    |-> MapSet(alerts, data.userId.n, NewAlert(data)),
     currentId |-> currentId + 1,
     ret       |-> NewAlert(data)]

\* createAlert returning the record without storing it
createAlert_NoStore(data) ==
    [users     |-> users,
     alerts    |-> alerts,
     currentId |-> currentId + 1,
     ret       |-> NewAlert(data)]

\* createAlert(data): the store after the call and the value returned
createAlert(data) ==
    [users     |-> users,
     alerts    |-> MapSet(alerts, currentId, NewAlert(data)),
     currentId |-> currentId + 1,
     ret       |-> NewAlert(data)]

\* getAlertsByUser without its filter
getAlertsByUser_NoFilter(userId) == MapValues(alerts)

\* getAlertsByUser comparing the alert's id, not its owner, with the argument
getAlertsByUser_ById(userId) ==
    SelectSeq(MapValues(alerts), LAMBDA alert : alert.id = userId)

\* getAlertsByUser with its comparison negated
getAlertsByUser_NotOwner(userId) ==
    SelectSeq(MapValues(alerts),
              LAMBDA alert : "userId" \in DOMAIN alert /\ alert.userId # userId)

\* getAlertsByUser(userId): the array returned
getAlertsByUser(userId) ==
    SelectSeq(MapValues(alerts),
              LAMBDA alert : "userId" \in DOMAIN alert /\ alert.userId = userId)

(***************************************************************************)
(* The state after construction (new MemStorage(), no request served).     *)
(***************************************************************************)
EmptyObject == [f \in {} |-> Null]

NoCall == [op |-> "none", arg |-> EmptyObject, ret |-> <<>>]

NoResponse ==
    [method |-> "none", caller |-> 0, body |-> EmptyObject, status |-> 0,
     payload |-> <<>>]

\* undefined
Undefined == [k |-> "undefined"]

\* new Date(Date.now() + i * 24 * 60 * 60 * 1000): i days after the reading t
DaysAfter(t, i) == [k |-> "date", t |-> t, days |-> i]

\* ['Sunny', 'Cloudy', 'Rainy']
Conditions == <<"Sunny", "Cloudy", "Rainy">>

\* { length: 7 }
ForecastDays == 7

\* the values Math.random() takes for the seven days, as the temperature
\* Math.round(20 + Math.random() * 10) and the index
\* Math.floor(Math.random() * 3) they give: three of the draws possible
Draws ==
    {[i \in 0..(ForecastDays - 1) |->
        [temp |-> 20 + ((i * m) % 11), index |-> (i * m) % 3]] : m \in 0..2}

Draw0 == [i \in 0..(ForecastDays - 1) |-> [temp |-> 20, index |-> 0]]

\* the mock data the constructor installs, for the clock's reading t and the
\* random values draw
MockData(t, draw) ==
    << [key |-> "aqi",
        value |-> [value |-> Num(45), pm25 |-> Num(12), pm10 |-> Num(25),
                   timestamp |-> DateOf(t)]],
       [key |-> "water",
        value |-> [ph |-> Frac(36, 5), turbidity |-> Frac(3, 2),
                   dissolvedOxygen |-> Frac(17, 2), timestamp |-> DateOf(t)]],
       [key |-> "weather",
        value |-> [daily |->
                     [j \in 1..ForecastDays |->
                        [date |-> DaysAfter(t, j - 1),
                         temp |-> Num(draw[j - 1].temp),
                         condition |-> Str(Conditions[draw[j - 1].index + 1])]]]]
    >>

\* Map.prototype.get
MapGet(m, key) ==
    IF MapHas(m, key)
    THEN m[CHOOSE i \in 1..Len(m) : m[i].key = key].value
    ELSE Undefined

\* getEnvironmentalData treating an unknown type as aqi
getEnvironmentalData_Default(type) ==
    IF MapHas(environmentalData, type)
    THEN MapGet(environmentalData, type)
    ELSE MapGet(environmentalData, "aqi")

\* getEnvironmentalData(type): the value returned
getEnvironmentalData(type) == MapGet(environmentalData, type)

\* the server process before the first statement of index.ts
ProcStart ==
    [pc |-> "start", secret |-> Undefined, stack |-> <<>>, listening |-> FALSE,
     exitCode |-> Undefined]

\* the form's default values
DefaultConfig ==
    [parameter |-> Str("temperature"), condition |-> Str("above"),
     threshold |-> Num(30), severity |-> Str("warning"),
     notificationChannel |-> Str("email"), enabled |-> Bool(TRUE)]

\* AlertConfiguration as useState leaves it at the first render, before its
\* effect has run
ComponentStart ==
    [alertConfigs |-> <<>>, loading |-> TRUE, error |-> Null,
     newConfig |-> DefaultConfig, mounted |-> FALSE, handlers |-> {}]

\* EnvironmentalDashboard as useState leaves it at the first render
DashboardStart ==
    [environmentalData |->
        [airQuality |-> <<>>, waterQuality |-> <<>>, weatherData |-> Null,
         alerts |-> <<>>],
     started |-> 0, refreshes |-> {}]

Init ==
    /\ proc = ProcStart
    /\ component = ComponentStart
    /\ dashboard = DashboardStart
    /\ users = <<>>
    /\ alerts = <<>>
    /\ currentId = 1
    /\ now = 0
    /\ intColumn \in BOOLEAN
    /\ environmentalData \in {MockData(0, draw) : draw \in Draws}
    /\ reqs = {}
    /\ response = NoResponse
    /\ last = NoCall

\* new Date(): the clock is read, and shows the time of the latest reading or
\* a later one
ReadClock == now' \in now..MaxTime

(***************************************************************************)
(* StoreSpec: the methods of MemStorage called directly with arguments of  *)
(* their declared types.                                                   *)
(***************************************************************************)
Usernames == {"alice", "bob"}

UsernameOrder == <<"alice", "bob">>

InsertUsers ==
    {[username |-> Str(u), password |-> Str("hash"), email |-> Str("mail")] :
        u \in Usernames}

\* the userId arguments tried: the store does not ask whether such a user exists
OwnerArgs == {Num(1), Num(2)}

UserIdArgs == OwnerArgs \cup {Num(3)}

AlertDataArgs ==
    {[type |-> Str("aqi"), threshold |-> Num(100), userId |-> u] : u \in OwnerArgs}
    \cup
    {[type |-> Str("water"), threshold |-> Frac(15, 2), userId |-> u] : u \in OwnerArgs}
    \cup
    {[type |-> Str("weather"), threshold |-> Num(0), userId |-> Num(1),
      active |-> Bool(FALSE)]}

CallCreateUser ==
    \E insertUser \in InsertUsers :
        LET r == createUser(insertUser) IN
        /\ currentId <= MaxId
        /\ users' = r.users
        /\ alerts' = r.alerts
        /\ currentId' = r.currentId
        /\ last' = [op |-> "createUser", arg |-> insertUser, ret |-> <<r.ret>>]
        /\ UNCHANGED <<now, intColumn, environmentalData, proc, component,
                       dashboard, reqs, response>>

CallCreateAlert ==
    \E data \in AlertDataArgs :
        LET r == createAlert(data) IN
        /\ currentId <= MaxId
        /\ ReadClock
        /\ users' = r.users
        /\ alerts' = r.alerts
        /\ currentId' = r.currentId
        /\ last' = [op |-> "createAlert", arg |-> data, ret |-> <<r.ret>>]
        /\ UNCHANGED <<intColumn, environmentalData, proc, component,
                       dashboard, reqs, response>>

CallGetAlertsByUser ==
    \E userId \in UserIdArgs :
        /\ last' = [op |-> "getAlertsByUser", arg |-> [userId |-> userId],
                    ret |-> getAlertsByUser(userId)]
        /\ UNCHANGED <<users, alerts, currentId, now, intColumn,
                       environmentalData, proc, component, dashboard, reqs,
                       response>>

StoreNext ==
    \/ CallCreateUser
    \/ CallCreateAlert
    \/ CallGetAlertsByUser

\* the store reads neither the schema nor the requests
\* the store's methods for users and alerts do not read the mock data or the
\* schema: one build and one draw
StoreInit == Init /\ intColumn /\ environmentalData = MockData(0, Draw0)

StoreSpec == StoreInit /\ [][StoreNext]_vars

(***************************************************************************)
(* The insert schema of the alerts table:                                  *)
(*   createInsertSchema(alerts).pick({ type: true, threshold: true })      *)
(* type is a text column, threshold an integer column, both notNull and    *)
(* without default, so both keys are required; the object schema strips    *)
(* every other key.                                                        *)
(***************************************************************************)
\* z.string(), of a required key
TypeOk(body) == "type" \in DOMAIN body /\ body.type.k = "string"

\* threshold made optional, as for a column that is not notNull
ThresholdOk_Optional(body) ==
    "threshold" \in DOMAIN body =>
        /\ body.threshold.k = "number"
        /\ intColumn => IsInteger(body.threshold) /\ InInt32(body.threshold)

\* threshold under z.coerce.number(): a string that denotes a number passes
ThresholdOk_Coerce(body) ==
    /\ "threshold" \in DOMAIN body
    /\ \/ body.threshold.k = "number"
       \/ body.threshold.k = "string" /\ body.threshold.s = "100"

\* z.number() of a required key; from drizzle-zod 0.6 on also .int() within
\* the range of a 32-bit integer
ThresholdOk(body) ==
    /\ "threshold" \in DOMAIN body
    /\ body.threshold.k = "number"
    /\ intColumn => IsInteger(body.threshold) /\ InInt32(body.threshold)

\* insertAlertSchema.parse(body) does not throw
SchemaAccepts(body) == TypeOk(body) /\ ThresholdOk(body)

\* the schema letting unknown keys through (.passthrough())
SchemaData_Passthrough(body) == body

\* the value insertAlertSchema.parse(body) returns: the picked keys only
SchemaData(body) == [f \in {"type", "threshold"} \cap DOMAIN body |-> body[f]]

(***************************************************************************)
(* The requests tried.                                                     *)
(***************************************************************************)
\* req.body after express.json(): a well-formed body, a type outside the three
\* categories, no threshold, a threshold given as a string, a threshold that is
\* no integer, and a well-formed body that also names the fields the server
\* is to set
Bodies ==
    { [type |-> Str("aqi"), threshold |-> Num(100)],
      [type |-> Str("invalid"), threshold |-> Num(100)],
      [type |-> Str("aqi")],
      [type |-> Str("aqi"), threshold |-> Str("100")],
      [type |-> Str("aqi"), threshold |-> Frac(3, 2)],
      [type |-> Str("aqi"), threshold |-> Num(100), userId |-> Num(1),
       id |-> Num(7), active |-> Bool(FALSE), createdAt |-> Str("1970")] }

\* the session layer: a request carries no session (0) or the session of a
\* registered user, whose id is then req.user.id
Callers == {0} \cup {users[i].key : i \in 1..Len(users)}

IsAuthenticated(caller) == caller # 0

\* res.json(value): a Date is sent as its ISO string
ToJSON(obj) ==
    [f \in DOMAIN obj |-> IF obj[f].k = "date" THEN IsoString(obj[f].t) ELSE obj[f]]

Response(method, caller, body, status, payload) ==
    [method |-> method, caller |-> caller, body |-> body, status |-> status,
     payload |-> payload]

(***************************************************************************)
(* registerRoutes: the alert routes.  A handler runs without interruption  *)
(* up to its await; what follows the await runs later, after any steps of  *)
(* other handlers.                                                         *)
(***************************************************************************)
\* validation before the session check
PostAlertsStatus_ValidateFirst(caller, body) ==
    IF ~SchemaAccepts(body) THEN 400
    ELSE IF ~IsAuthenticated(caller) THEN 401
    ELSE 201

\* POST /api/alerts: the status the handler answers
PostAlertsStatus(caller, body) ==
    IF ~IsAuthenticated(caller) THEN 401
    ELSE IF ~SchemaAccepts(body) THEN 400
    ELSE 201

\* POST /api/alerts up to its await
PostAlerts ==
    \E caller \in Callers, body \in Bodies :
        IF PostAlertsStatus(caller, body) = 401
        THEN /\ response' = Response("POST", caller, body, 401, <<>>)
             /\ UNCHANGED <<users, alerts, currentId, now, intColumn,
                            environmentalData, proc, component, dashboard,
                            reqs, last>>
        ELSE IF PostAlertsStatus(caller, body) = 400
        THEN /\ response' = Response("POST", caller, body, 400,
                                     <<[error |-> Str("Invalid alert data")]>>)
             /\ UNCHANGED <<users, alerts, currentId, now, intColumn,
                            environmentalData, proc, component, dashboard,
                            reqs, last>>
        ELSE LET r == createAlert(Spread(SchemaData(body),
                                         [userId |-> Num(caller)]))
             IN  /\ currentId <= MaxId
                 /\ Cardinality(reqs) < MaxReqs
                 /\ ReadClock
                 /\ users' = r.users
                 /\ alerts' = r.alerts
                 /\ currentId' = r.currentId
                 /\ reqs' = reqs \cup {[method |-> "POST", caller |-> caller,
                                        body |-> body, held |-> <<r.ret>>]}
                 /\ UNCHANGED <<intColumn, environmentalData, proc, component,
                                dashboard, response, last>>

\* POST /api/alerts after its await: res.status(201).json(alert)
PostAlertsResume ==
    \E r \in reqs :
        /\ r.method = "POST"
        /\ reqs' = reqs \ {r}
        /\ response' = Response("POST", r.caller, r.body, 201,
                                <<ToJSON(r.held[1])>>)
        /\ UNCHANGED <<users, alerts, currentId, now, intColumn,
                       environmentalData, proc, component, dashboard, last>>

\* GET /api/alerts up to its await
GetAlerts ==
    \E caller \in Callers :
        IF ~IsAuthenticated(caller)
        THEN /\ response' = Response("GET", caller, EmptyObject, 401, <<>>)
             /\ UNCHANGED <<users, alerts, currentId, now, intColumn,
                            environmentalData, proc, component, dashboard,
                            reqs, last>>
        ELSE /\ Cardinality(reqs) < MaxReqs
             /\ reqs' = reqs \cup {[method |-> "GET", caller |-> caller,
                                    body |-> EmptyObject,
                                    held |-> getAlertsByUser(Num(caller))]}
             /\ UNCHANGED <<users, alerts, currentId, now, intColumn,
                            environmentalData, proc, component, dashboard,
                            response, last>>

\* GET /api/alerts after its await: res.json(alerts)
GetAlertsResume ==
    \E r \in reqs :
        /\ r.method = "GET"
        /\ reqs' = reqs \ {r}
        /\ response' = Response("GET", r.caller, r.body, 200,
                                [i \in 1..Len(r.held) |-> ToJSON(r.held[i])])
        /\ UNCHANGED <<users, alerts, currentId, now, intColumn,
                       environmentalData, proc, component, dashboard, last>>

\* registration, as far as the store sees it: a user with a username not yet
\* taken is created.  Users register in the order of UsernameOrder; which
\* name a user bears plays no part in the alert routes.
Register ==
    \E insertUser \in InsertUsers :
        LET r == createUser(insertUser) IN
        /\ \A i \in 1..Len(users) : users[i].value.username # insertUser.username
        /\ Len(users) < Len(UsernameOrder)
        /\ insertUser.username = Str(UsernameOrder[Len(users) + 1])
        /\ currentId <= MaxId
        /\ users' = r.users
        /\ alerts' = r.alerts
        /\ currentId' = r.currentId
        /\ UNCHANGED <<now, intColumn, environmentalData, proc, component,
                       dashboard, reqs, response, last>>

Next ==
    \/ Register
    \/ PostAlerts
    \/ PostAlertsResume
    \/ GetAlerts
    \/ GetAlertsResume

\* the alert routes do not read the mock data: one draw
RoutesInit == Init /\ environmentalData = MockData(0, Draw0)

Spec == RoutesInit /\ [][Next]_vars

(***************************************************************************)
(* Properties of the store (StoreSpec).                                    *)
(***************************************************************************)
\* the stored alerts, in the Map's order
StoredAlerts == MapValues(alerts)

\* the step is a call of createAlert
CreateAlertStep == last' # last /\ last'.op = "createAlert"

\* how many of the records of sequence q have userId u
CountOwned(q, u) == Cardinality({i \in 1..Len(q) : q[i].userId = u})

\* C1: isolation.  The array a call of getAlertsByUser(u) returned holds only
\* alerts whose userId is u, and holds every stored alert whose userId is u
\* (each once); the same is true of what the method would return for any
\* argument in any reachable state.
C1_Isolation ==
    /\ last.op = "getAlertsByUser" =>
          LET u == last.arg.userId
              ret == last.ret
          IN  /\ \A i \in 1..Len(ret) : ret[i].userId = u
              /\ \A j \in 1..Len(StoredAlerts) :
                    StoredAlerts[j].userId = u =>
                        \E i \in 1..Len(ret) : ret[i] = StoredAlerts[j]
              /\ Len(ret) = CountOwned(StoredAlerts, u)
    /\ \A u \in UserIdArgs :
          LET ret == getAlertsByUser(u)
          IN  /\ \A i \in 1..Len(ret) : ret[i].userId = u
              /\ Len(ret) = CountOwned(StoredAlerts, u)

\* a call for a user who has alerts returned them while the store also holds
\* an alert of another user
C1_Witness ==
    /\ last.op = "getAlertsByUser"
    /\ Len(last.ret) >= 1
    /\ \E j \in 1..Len(StoredAlerts) : StoredAlerts[j].userId # last.arg.userId

\* C2: createAlert(type, threshold, userId) followed by getAlertsByUser(userId)
\* yields the previous listing plus exactly one new record with the given
\* type, threshold and userId, an id no stored alert had, and createdAt set;
\* the listing of every other user is what it was.
C2_CreateThenList ==
    [][\A data \in AlertDataArgs :
          (CreateAlertStep /\ last'.arg = data) =>
              LET new == last'.ret[1]
              IN  /\ getAlertsByUser(data.userId)' =
                         Append(getAlertsByUser(data.userId), new)
                  /\ new.type = data.type
                  /\ "threshold" \in DOMAIN new
                  /\ new.threshold = data.threshold
                  /\ new.userId = data.userId
                  /\ \A j \in 1..Len(StoredAlerts) : StoredAlerts[j].id # new.id
                  /\ "createdAt" \in DOMAIN new
                  /\ new.createdAt.k = "date"
                  /\ \A u \in UserIdArgs \ {data.userId} :
                        getAlertsByUser(u)' = getAlertsByUser(u)
    ]_vars

\* an alert was created for a user who already had one, while another user
\* has an alert too, and the listing ends with it
C2_Witness ==
    /\ last.op = "createAlert"
    /\ Len(getAlertsByUser(last.arg.userId)) >= 2
    /\ getAlertsByUser(last.arg.userId)[Len(getAlertsByUser(last.arg.userId))]
          = last.ret[1]
    /\ \E u \in UserIdArgs \ {last.arg.userId} : Len(getAlertsByUser(u)) >= 1

\* C3: the stored alerts have pairwise distinct ids, each is stored under the
\* key that is its id, and every call of createAlert adds exactly one alert
\* (no other call removes or adds one), so N calls leave N alerts.
C3_UniqueIds ==
    /\ [](/\ \A i \in 1..Len(alerts) : alerts[i].value.id = Num(alerts[i].key)
          /\ \A i, j \in 1..Len(alerts) :
                i # j => /\ alerts[i].value.id # alerts[j].value.id
                         /\ alerts[i].key # alerts[j].key)
    /\ [][Len(alerts') = Len(alerts) + (IF CreateAlertStep THEN 1 ELSE 0)]_vars

\* alerts were created with a user created between two of them
C3_Witness ==
    /\ Len(alerts) >= 2
    /\ \E i \in 1..Len(users) : \E j, l \in 1..Len(alerts) :
          alerts[j].key < users[i].key /\ users[i].key < alerts[l].key

(***************************************************************************)
(* Properties of the alert routes (Spec).                                  *)
(***************************************************************************)
Categories == {Str("aqi"), Str("water"), Str("weather")}

\* the handlers of POST /api/alerts suspended at their await
Posts == {r \in reqs : r.method = "POST"}

\* the response sent last answers a POST /api/alerts of a logged-in user
AnsweredPost == response.method = "POST" /\ response.caller # 0

\* the handlers suspended by the step
Started == reqs' \ reqs

\* the step sends a response
Responds == response' # response

\* the step leaves the store and the suspended handlers as they are
StoreUntouched == UNCHANGED <<users, alerts, currentId, reqs>>

\* the fields of the alert a response carries
AlertFields == {"id", "userId", "type", "threshold", "active", "createdAt"}

\* C4: with POST /api/alerts handlers suspended at their awaits and resumed
\* in any order, the stored alerts have pairwise distinct ids, the alert of
\* every suspended handler and of every 201 response is in the store, two
\* suspended handlers hold different ids, and no step changes or removes an
\* entry of the alert map.
C4_ConcurrentCreations ==
    /\ [](/\ \A i, j \in 1..Len(alerts) :
                i # j => /\ alerts[i].value.id # alerts[j].value.id
                         /\ alerts[i].key # alerts[j].key
          /\ \A r \in Posts : \E i \in 1..Len(alerts) : alerts[i].value = r.held[1]
          /\ \A r, q \in Posts : r # q => r.held[1].id # q.held[1].id
          /\ response.status = 201 =>
                \E i \in 1..Len(alerts) :
                    ToJSON(alerts[i].value) = response.payload[1])
    /\ [][/\ Len(alerts') >= Len(alerts)
          /\ \A i \in 1..Len(alerts) : alerts'[i] = alerts[i]]_vars

\* two creations are in flight and a third request's creation, made after
\* one of them, has been answered before it
C4_Witness ==
    /\ \E r \in Posts : /\ response.status = 201
                        /\ response.payload[1].id.n > r.held[1].id.n
    /\ Len(alerts) >= 2

\* C5: a POST or GET /api/alerts without a session is answered 401 whatever
\* its body; no handler of such a request is ever suspended in a store call,
\* and the step that answers it leaves the store as it is.
C5_Unauthenticated401 ==
    /\ [](/\ (response.method \in {"POST", "GET"} /\ response.caller = 0)
                => response.status = 401
          /\ \A r \in reqs : r.caller # 0)
    /\ [][(Responds /\ response'.caller = 0) => StoreUntouched]_vars

\* a POST without a session whose body the schema rejects got 401 while the
\* store holds an alert
C5_Witness ==
    /\ response.method = "POST"
    /\ response.caller = 0
    /\ "threshold" \notin DOMAIN response.body
    /\ response.status = 401
    /\ Len(alerts) >= 1

\* C6: a POST /api/alerts of a logged-in user whose type is none of aqi,
\* water, weather is answered 400, and every stored alert has one of the
\* three types.
C6_InvalidTypeRejected ==
    /\ (AnsweredPost /\ "type" \in DOMAIN response.body
            /\ response.body.type \notin Categories)
          => response.status = 400
    /\ \A r \in Posts : r.body.type \in Categories
    /\ \A i \in 1..Len(alerts) : alerts[i].value.type \in Categories

\* the body has no threshold, or one that is no number
NotNumeric(body) == "threshold" \notin DOMAIN body \/ body.threshold.k # "number"

\* C7: a POST /api/alerts of a logged-in user whose threshold is missing or
\* no number is answered 400; no such request reaches createAlert, and the
\* step that answers it leaves currentId and the alert map as they are.
C7_BadThreshold400 ==
    /\ [](/\ (AnsweredPost /\ NotNumeric(response.body)) => response.status = 400
          /\ \A r \in Posts : ~NotNumeric(r.body)
          /\ \A i \in 1..Len(alerts) : ~NotNumeric(alerts[i].value))
    /\ [][(Responds /\ response'.method = "POST" /\ response'.caller # 0
                /\ NotNumeric(response'.body)) => StoreUntouched]_vars

\* a logged-in user's POST without threshold got 400 while the store holds
\* an alert
C7_Witness ==
    /\ AnsweredPost
    /\ "threshold" \notin DOMAIN response.body
    /\ response.status = 400
    /\ Len(alerts) >= 1

\* the body has one of the three types and a threshold that is a number
WellFormed(body) ==
    /\ "type" \in DOMAIN body /\ body.type \in Categories
    /\ "threshold" \in DOMAIN body /\ body.threshold.k = "number"

StringThreshold(body) == "threshold" \in DOMAIN body /\ body.threshold.k = "string"

\* C9 as stated: a POST /api/alerts of a logged-in user whose threshold is the
\* string "100" is accepted and answered with the threshold 100.
C9_StringCoerced ==
    (AnsweredPost /\ StringThreshold(response.body)
        /\ response.body.threshold.s = "100")
      => /\ response.status = 201
         /\ response.payload[1].threshold = Num(100)

\* C9 as amended: the schema does not coerce.  A POST /api/alerts of a
\* logged-in user whose threshold is a string, also one that denotes a number,
\* is answered 400 and stores nothing; a threshold that is accepted is stored
\* and answered exactly as the body gave it.
C9_StringRejected ==
    /\ [](/\ (AnsweredPost /\ StringThreshold(response.body))
                => response.status = 400
          /\ \A r \in Posts : /\ ~StringThreshold(r.body)
                              /\ r.held[1].threshold = r.body.threshold
          /\ response.status = 201 =>
                response.payload[1].threshold = response.body.threshold)
    /\ [][(Responds /\ response'.method = "POST" /\ response'.caller # 0
                /\ StringThreshold(response'.body)) => StoreUntouched]_vars

\* a logged-in user's POST with the threshold "100" got 400 while the store
\* holds an alert
C9_Witness ==
    /\ AnsweredPost
    /\ StringThreshold(response.body)
    /\ response.body.threshold.s = "100"
    /\ response.status = 400
    /\ Len(alerts) >= 1

\* C10: the alert a POST /api/alerts creates has the caller's id as userId,
\* the counter's value as id, active = true and the time of the call as
\* createdAt, whatever userId, id, active or createdAt the body names.
C10_OwnerIsCaller ==
    /\ [](/\ \A r \in Posts :
                /\ r.held[1].userId = Num(r.caller)
                /\ r.held[1].active = Bool(TRUE)
                /\ r.held[1].createdAt.k = "date"
                /\ \E i \in 1..Len(alerts) :
                      /\ alerts[i].value = r.held[1]
                      /\ r.held[1].id = Num(alerts[i].key)
          /\ response.status = 201 =>
                /\ response.payload[1].userId = Num(response.caller)
                /\ response.payload[1].active = Bool(TRUE)
                /\ response.payload[1].createdAt.s = "ISO-8601"
          /\ \A i \in 1..Len(alerts) :
                /\ alerts[i].value.id = Num(alerts[i].key)
                /\ \E j \in 1..Len(users) :
                      alerts[i].value.userId = Num(users[j].key))
    /\ [][\A r \in Started :
             r.method = "POST" =>
                alerts' = Append(alerts,
                    [key |-> currentId,
                     value |-> [id |-> Num(currentId),
                                type |-> r.body.type,
                                threshold |-> r.body.threshold,
                                userId |-> Num(r.caller),
                                active |-> Bool(TRUE),
                                createdAt |-> DateOf(now')]])]_vars

\* a request whose body names another user's id, an id, active = false and a
\* createdAt was answered 201
C10_Witness ==
    /\ AnsweredPost
    /\ response.status = 201
    /\ "userId" \in DOMAIN response.body
    /\ response.body.userId # Num(response.caller)
    /\ response.body.id # response.payload[1].id
    /\ response.body.active # response.payload[1].active

(***************************************************************************)
(* What a user sees of the alerts.                                         *)
(***************************************************************************)
\* the ids a user may have
UserIds == 1..MaxId

\* the part of an alert that does not depend on the counter or the clock
Projection(alert) ==
    [f \in {"type", "threshold", "userId", "active"} \cap DOMAIN alert |-> alert[f]]

Projections(q) == [i \in 1..Len(q) |-> Projection(q[i])]

\* the stored alerts whose userId is u, in the Map's order
OwnedBy(u) == SelectSeq(StoredAlerts, LAMBDA alert : alert.userId = Num(u))

\* the handlers of GET /api/alerts suspended at their await
Gets == {r \in reqs : r.method = "GET"}

\* C11: noninterference.  What user u sees is a function of u's own accepted
\* POSTs alone: a step changes the (type, threshold, userId, active) records
\* of u's stored alerts only when it is an accepted POST /api/alerts of u, and
\* then by appending the record of that request; every other step, among them
\* every request of another user, leaves them as they are.  A GET /api/alerts
\* of u reads exactly u's stored alerts and answers with them.
C11_Noninterference ==
    /\ [](/\ \A r \in Gets :
                \A i \in 1..Len(r.held) : r.held[i].userId = Num(r.caller)
          /\ (response.method = "GET" /\ response.status = 200) =>
                \A i \in 1..Len(response.payload) :
                    response.payload[i].userId = Num(response.caller))
    /\ [][\/ reqs' = reqs /\ alerts' = alerts
          \/ LET started == Started IN
             /\ IF alerts' = alerts
                THEN \A r \in started : r.method # "POST"
                ELSE \A u \in UserIds :
                       LET before == Projections(OwnedBy(u))
                           after == Projections(OwnedBy(u))'
                       IN  IF \E r \in started :
                                 r.method = "POST" /\ r.caller = u
                           THEN \A r \in started :
                                  (r.method = "POST" /\ r.caller = u) =>
                                      after = Append(before,
                                                [type |-> r.body.type,
                                                 threshold |-> r.body.threshold,
                                                 userId |-> Num(u),
                                                 active |-> Bool(TRUE)])
                           ELSE after = before
             /\ \A r \in started :
                   r.method = "GET" => r.held = OwnedBy(r.caller)
             /\ \A r \in Gets :
                   r \notin reqs' =>
                       /\ response'.status = 200
                       /\ response'.caller = r.caller
                       /\ Projections(response'.payload) = Projections(r.held)
       ]_vars

\* a GET /api/alerts of a user was answered while the store holds an alert of
\* another user, and the answer does not show it
C11_Witness ==
    /\ response.method = "GET"
    /\ response.status = 200
    /\ \E i \in 1..Len(StoredAlerts) :
          /\ StoredAlerts[i].userId # Num(response.caller)
          /\ \A j \in 1..Len(response.payload) :
                response.payload[j].id # StoredAlerts[i].id

(***************************************************************************)
(* RefSpec: a caller of the store that keeps what the methods returned.    *)
(* An object is known by its place in memory, not by its value: the record *)
(* createAlert returns is the object it put into the Map, and the array    *)
(* getAlertsByUser returns is a new array whose elements are the objects   *)
(* in the Map.  A reference to a stored alert is the key of its entry; the *)
(* reference 0 is an object of the caller's own.  The caller's memory is   *)
(* kept in last as references: rec, the record the latest createAlert      *)
(* returned, and kept, the array the latest getAlertsByUser returned.      *)
(***************************************************************************)
NoCallRef ==
    [op |-> "none", arg |-> EmptyObject, ret |-> <<>>, rec |-> 0, kept |-> <<>>]

RefInit ==
    /\ proc = ProcStart
    /\ component = ComponentStart
    /\ dashboard = DashboardStart
    /\ users = <<>>
    /\ alerts = <<>>
    /\ currentId = 1
    /\ now = 0
    /\ intColumn = TRUE
    /\ environmentalData = MockData(0, Draw0)
    /\ reqs = {}
    /\ response = NoResponse
    /\ last = NoCallRef

\* the keys of the entries getAlertsByUser(userId) returns the values of
RefsOfUser(userId) ==
    SelectSeq(MapKeys(alerts),
              LAMBDA key : \E i \in 1..Len(alerts) :
                              /\ alerts[i].key = key
                              /\ alerts[i].value.userId = userId)

\* the alerts the caller creates
RefDataArgs ==
    {[type |-> Str("aqi"), threshold |-> Num(100), userId |-> u] : u \in OwnerArgs}

\* const alert = await storage.createAlert(data)
RefCreateAlert ==
    \E data \in RefDataArgs :
        LET r == createAlert(data) IN
        /\ currentId <= MaxId
        /\ ReadClock
        /\ users' = r.users
        /\ alerts' = r.alerts
        /\ currentId' = r.currentId
        /\ last' = [op |-> "createAlert", arg |-> data, ret |-> <<>>,
                    rec |-> currentId, kept |-> last.kept]
        /\ UNCHANGED <<intColumn, environmentalData, proc, component,
                       dashboard, reqs, response>>

\* const list = await storage.getAlertsByUser(userId)
RefGetAlertsByUser ==
    \E userId \in UserIdArgs :
        /\ last' = [op |-> "getAlertsByUser", arg |-> [userId |-> userId],
                    ret |-> <<>>,
                    rec |-> last.rec, kept |-> RefsOfUser(userId)]
        /\ UNCHANGED <<users, alerts, currentId, now, intColumn,
                       environmentalData, proc, component, dashboard, reqs,
                       response>>

\* the fields a caller may assign and the values tried
Assignments ==
    {[field |-> "active", value |-> Bool(FALSE)],
     [field |-> "userId", value |-> Num(2)]}

\* obj[field] = value for the stored object a reference points to
Assign(ref, field, value) ==
    [i \in 1..Len(alerts) |->
        IF alerts[i].key = ref
        THEN [key |-> alerts[i].key,
              value |-> Spread(alerts[i].value, [f \in {field} |-> value])]
        ELSE alerts[i]]

\* alert.field = value on the record createAlert returned
SetReturnedField ==
    \E a \in Assignments :
        /\ last.rec # 0
        /\ alerts' = Assign(last.rec, a.field, a.value)
        /\ last' = [last EXCEPT !.op = "setReturned", !.arg = a]
        /\ UNCHANGED <<users, currentId, now, intColumn, environmentalData,
                       proc, component, dashboard, reqs, response>>

\* list[i].field = value on an element of the array getAlertsByUser returned
SetElementField ==
    \E a \in Assignments : \E i \in 1..Len(last.kept) :
        /\ last.kept[i] # 0
        /\ alerts' = Assign(last.kept[i], a.field, a.value)
        /\ last' = [last EXCEPT !.op = "setElement", !.arg = a]
        /\ UNCHANGED <<users, currentId, now, intColumn, environmentalData,
                       proc, component, dashboard, reqs, response>>

\* list.push({...}) on the array getAlertsByUser returned
PushElement ==
    /\ last.op \in {"getAlertsByUser", "push", "pop", "setElement"}
    /\ Len(last.kept) < MaxId
    /\ last' = [last EXCEPT !.op = "push", !.arg = EmptyObject,
                            !.kept = Append(last.kept, 0)]
    /\ UNCHANGED <<users, alerts, currentId, now, intColumn,
                   environmentalData, proc, component, dashboard, reqs,
                   response>>

\* list.pop() on the array getAlertsByUser returned
PopElement ==
    /\ last.op \in {"getAlertsByUser", "push", "pop", "setElement"}
    /\ Len(last.kept) >= 1
    /\ last' = [last EXCEPT !.op = "pop", !.arg = EmptyObject,
                            !.kept = SubSeq(last.kept, 1, Len(last.kept) - 1)]
    /\ UNCHANGED <<users, alerts, currentId, now, intColumn,
                   environmentalData, proc, component, dashboard, reqs,
                   response>>

RefNext ==
    \/ RefCreateAlert
    \/ RefGetAlertsByUser
    \/ SetReturnedField
    \/ SetElementField
    \/ PushElement
    \/ PopElement

RefSpec == RefInit /\ [][RefNext]_vars

\* the step is a move of the caller, op, on what a method returned
CallerStep(op) == last' # last /\ last'.op = op

\* C12 as stated: createAlert returns a copy, so that changing a field of the
\* returned record changes no stored alert, and every getAlertsByUser returns
\* afterwards what it returned before.
C12_ReturnsCopy ==
    [][CallerStep("setReturned") =>
          /\ alerts' = alerts
          /\ \A u \in UserIdArgs : getAlertsByUser(u)' = getAlertsByUser(u)
    ]_vars

\* C13 as stated: the array getAlertsByUser returned is the caller's own.  A
\* later createAlert does not change it, and adding, removing or modifying
\* its elements changes neither the store nor what any later getAlertsByUser
\* returns.
C13_Snapshot ==
    [][/\ CallerStep("createAlert") => last'.kept = last.kept
       /\ (CallerStep("push") \/ CallerStep("pop") \/ CallerStep("setElement")) =>
             /\ alerts' = alerts
             /\ \A u \in UserIdArgs : getAlertsByUser(u)' = getAlertsByUser(u)
    ]_vars

(***************************************************************************)
(* Properties of the stored alerts over time.                              *)
(***************************************************************************)
\* C14: alerts are immutable and never removed.  Every step of the routes,
\* and so every store operation they call, leaves every entry of the alert
\* map in its place with its key, id, userId, type, threshold, active and
\* createdAt unchanged.
C14_Immutable ==
    [][/\ Len(alerts') >= Len(alerts)
       /\ \A i \in 1..Len(alerts) :
             /\ alerts'[i].key = alerts[i].key
             /\ \A f \in AlertFields : alerts'[i].value[f] = alerts[i].value[f]
       /\ \A i \in 1..Len(alerts) : \E j \in 1..Len(alerts') :
             alerts'[j].value = alerts[i].value
    ]_vars

\* a user's second alert was created and answered while the first is stored
C14_Witness ==
    /\ response.status = 201
    /\ \E i, j \in 1..Len(alerts) :
          /\ i < j
          /\ alerts[i].value.userId = alerts[j].value.userId
          /\ ToJSON(alerts[j].value) = response.payload[1]

\* C15: every stored alert has active = true, also one created from data
\* that carries active = false.
C15_AlwaysActive ==
    /\ \A i \in 1..Len(alerts) :
          /\ "active" \in DOMAIN alerts[i].value
          /\ alerts[i].value.active = Bool(TRUE)
    /\ last.op = "createAlert" => last.ret[1].active = Bool(TRUE)

\* createAlert was called with data carrying active = false
C15_Witness ==
    /\ last.op = "createAlert"
    /\ "active" \in DOMAIN last.arg
    /\ last.arg.active = Bool(FALSE)
    /\ Len(alerts) >= 2

\* C16: referential integrity.  The userId of every stored alert, and of every
\* alert a handler holds or a response carries, is the id of a stored user.
C16_OwnerExists ==
    /\ \A i \in 1..Len(alerts) :
          \E j \in 1..Len(users) : users[j].value.id = alerts[i].value.userId
    /\ \A r \in Posts :
          \E j \in 1..Len(users) : users[j].value.id = r.held[1].userId
    /\ response.status = 201 =>
          \E j \in 1..Len(users) : users[j].value.id = response.payload[1].userId

\* the second user registered owns a stored alert
C16_Witness ==
    /\ Len(users) >= 2
    /\ \E i \in 1..Len(alerts) : alerts[i].value.userId = users[2].value.id

\* C17: for a userId no stored alert bears, also one no user has,
\* getAlertsByUser returns the empty array; a GET /api/alerts of a user
\* without alerts gets the empty array and is answered 200 with it.
C17_EmptyListing ==
    /\ [](\A u \in UserIds \cup {MaxId + 1} :
                OwnedBy(u) = <<>> => getAlertsByUser(Num(u)) = <<>>)
    /\ [][/\ \A r \in Started :
                (r.method = "GET" /\ OwnedBy(r.caller) = <<>>) => r.held = <<>>
          /\ \A r \in Gets :
                (r \notin reqs' /\ r.held = <<>>) =>
                    /\ response'.method = "GET"
                    /\ response'.status = 200
                    /\ response'.payload = <<>>]_vars

\* a GET /api/alerts of a user without alerts was answered 200 with the empty
\* list while the store holds an alert
C17_Witness ==
    /\ response.method = "GET"
    /\ response.status = 200
    /\ response.payload = <<>>
    /\ Len(alerts) >= 1

\* the alert a 201 response carries
Answered201 == response.method = "POST" /\ response.status = 201

\* C19: read-your-writes.  The alert a 201 response carries is stored under
\* its owner when the response is sent; a stored alert stays in its owner's
\* listing; and a GET /api/alerts that starts holds every stored alert of the
\* caller, among them the alert of the 201 response sent last when that
\* answered the same user.
C19_ReadYourWrites ==
    /\ [](Answered201 =>
            \E i \in 1..Len(alerts) :
                /\ alerts[i].value.userId = Num(response.caller)
                /\ ToJSON(alerts[i].value) = response.payload[1])
    /\ [][/\ \/ alerts' = alerts
             \/ \A i \in 1..Len(alerts) :
                   \E j \in 1..Len(alerts') : alerts'[j].value = alerts[i].value
          /\ \/ reqs' = reqs
             \/ \A r \in Started :
                   r.method = "GET" =>
                       /\ \A i \in 1..Len(alerts) :
                             alerts[i].value.userId = Num(r.caller) =>
                                 \E j \in 1..Len(r.held) :
                                     r.held[j] = alerts[i].value
                       /\ (Answered201 /\ response.caller = r.caller) =>
                             \E j \in 1..Len(r.held) :
                                 ToJSON(r.held[j]) = response.payload[1]
       ]_vars

\* a GET /api/alerts of the user whose POST was answered 201 last is suspended,
\* holding the created alert, while a POST is in flight too
C19_Witness ==
    /\ Answered201
    /\ \E r \in Gets :
          /\ r.caller = response.caller
          /\ \E j \in 1..Len(r.held) : ToJSON(r.held[j]) = response.payload[1]
    /\ Posts # {}

(***************************************************************************)
(* FaultSpec: the alert routes over a store whose call fails.  The routes  *)
(* reach the store through IStorage; an implementation of it other than    *)
(* MemStorage may reject the promise it returns.  The handler is suspended *)
(* at its await as before and resumes in its catch clause.  A call that    *)
(* fails leaves the store as it was.                                       *)
(***************************************************************************)
\* the handlers suspended at an await whose promise is rejected
Raised == {r \in reqs : "raised" \in DOMAIN r}

\* POST /api/alerts up to its await, storage.createAlert failing
PostAlertsStoreFails ==
    \E caller \in Callers, body \in Bodies :
        /\ PostAlertsStatus(caller, body) = 201
        /\ Cardinality(reqs) < MaxReqs
        /\ reqs' = reqs \cup {[method |-> "POST", caller |-> caller,
                               body |-> body, held |-> <<>>, raised |-> TRUE]}
        /\ UNCHANGED <<users, alerts, currentId, now, intColumn,
                       environmentalData, proc, component, dashboard,
                       response, last>>

\* POST /api/alerts after its await: the rejection is caught by the handler's
\* one catch clause
PostAlertsCatch ==
    \E r \in Raised :
        /\ r.method = "POST"
        /\ reqs' = reqs \ {r}
        /\ response' = Response("POST", r.caller, r.body, 400,
                                <<[error |-> Str("Invalid alert data")]>>)
        /\ UNCHANGED <<users, alerts, currentId, now, intColumn,
                       environmentalData, proc, component, dashboard, last>>

\* GET /api/alerts up to its await, storage.getAlertsByUser failing
GetAlertsStoreFails ==
    \E caller \in Callers :
        /\ IsAuthenticated(caller)
        /\ Cardinality(reqs) < MaxReqs
        /\ reqs' = reqs \cup {[method |-> "GET", caller |-> caller,
                               body |-> EmptyObject, held |-> <<>>,
                               raised |-> TRUE]}
        /\ UNCHANGED <<users, alerts, currentId, now, intColumn,
                       environmentalData, proc, component, dashboard,
                       response, last>>

\* GET /api/alerts after its await: the rejection is caught
GetAlertsCatch ==
    \E r \in Raised :
        /\ r.method = "GET"
        /\ reqs' = reqs \ {r}
        /\ response' = Response("GET", r.caller, r.body, 500,
                                <<[error |-> Str("Failed to fetch alerts")]>>)
        /\ UNCHANGED <<users, alerts, currentId, now, intColumn,
                       environmentalData, proc, component, dashboard, last>>

FaultNext ==
    \/ Register
    \/ PostAlertsStoreFails
    \/ PostAlertsCatch
    \/ GetAlertsStoreFails
    \/ GetAlertsCatch

FaultSpec == RoutesInit /\ [][FaultNext]_vars

\* C18 as stated: when the store call of an alert request fails, the request
\* is answered with a server error (5xx), and the call is not made again: the
\* handler ends with that response and the store is as it was.
C18_StoreFailure5xx ==
    [][\A r \in Raised :
          r \notin reqs' =>
              /\ response'.method = r.method
              /\ response'.caller = r.caller
              /\ response'.status >= 500
              /\ response'.status <= 599
              /\ reqs' = reqs \ {r}
              /\ UNCHANGED <<users, alerts, currentId>>
    ]_vars

(***************************************************************************)
(* EnvSpec: the store's methods called directly, getEnvironmentalData      *)
(* among them, from every draw of the constructor's random values.         *)
(***************************************************************************)
\* the types asked for: the three categories, another string, the empty
\* string and a category in capitals
EnvTypeArgs == {"aqi", "water", "weather", "noise", "", "AQI"}

CallGetEnvironmentalData ==
    \E type \in EnvTypeArgs :
        /\ last' = [op |-> "getEnvironmentalData", arg |-> [type |-> Str(type)],
                    ret |-> <<getEnvironmentalData(type)>>]
        /\ UNCHANGED <<users, alerts, currentId, now, intColumn,
                       environmentalData, proc, component, dashboard, reqs,
                       response>>

EnvNext ==
    \/ CallCreateUser
    \/ CallCreateAlert
    \/ CallGetAlertsByUser
    \/ CallGetEnvironmentalData

EnvInit == Init /\ intColumn

EnvSpec == EnvInit /\ [][EnvNext]_vars

\* the record the constructor installed for a category, whatever the draw
Installed(type, data) ==
    IF type = "aqi"
    THEN /\ DOMAIN data = {"value", "pm25", "pm10", "timestamp"}
         /\ data.value = Num(45) /\ data.pm25 = Num(12) /\ data.pm10 = Num(25)
         /\ data.timestamp = DateOf(0)
    ELSE IF type = "water"
    THEN /\ DOMAIN data = {"ph", "turbidity", "dissolvedOxygen", "timestamp"}
         /\ data.ph = Frac(36, 5) /\ data.turbidity = Frac(3, 2)
         /\ data.dissolvedOxygen = Frac(17, 2)
         /\ data.timestamp = DateOf(0)
    ELSE /\ DOMAIN data = {"daily"}
         /\ Len(data.daily) = 7
         /\ \A j \in 1..7 :
               /\ DOMAIN data.daily[j] = {"date", "temp", "condition"}
               /\ data.daily[j].date = DaysAfter(0, j - 1)
               /\ data.daily[j].temp.k = "number"
               /\ data.daily[j].temp.d = 1
               /\ data.daily[j].temp.n >= 20 /\ data.daily[j].temp.n <= 30
               /\ data.daily[j].condition \in
                     {Str("Sunny"), Str("Cloudy"), Str("Rainy")}

\* C20: getEnvironmentalData(type) returns the record installed at
\* construction for aqi, water and weather, the weather record with exactly 7
\* daily entries, and undefined for every other string; no call of a store
\* method changes what it returns for a type.
C20_EnvironmentalData ==
    /\ [](/\ \A type \in EnvTypeArgs :
                IF type \in {"aqi", "water", "weather"}
                THEN Installed(type, getEnvironmentalData(type))
                ELSE getEnvironmentalData(type) = Undefined
          /\ last.op = "getEnvironmentalData" =>
                IF last.arg.type \in Categories
                THEN Installed(last.arg.type.s, last.ret[1])
                ELSE last.ret[1] = Undefined)
    /\ [][\A type \in EnvTypeArgs :
            getEnvironmentalData(type)' = getEnvironmentalData(type)]_vars

\* after users and alerts were created, getEnvironmentalData was called for a
\* type that is no category and returned undefined
C20_Witness ==
    /\ last.op = "getEnvironmentalData"
    /\ last.arg.type \notin Categories
    /\ last.ret[1] = Undefined
    /\ Len(alerts) >= 1
    /\ Len(users) >= 1
    /\ environmentalData # MockData(0, Draw0)

(***************************************************************************)
(* EnvRouteSpec: the three environmental routes.  Each handler checks no   *)
(* session; it awaits storage.getEnvironmentalData and sends what it got,  *)
(* or, when the promise is rejected, answers 500 from its catch clause.    *)
(* MemStorage never rejects; another IStorage may.                         *)
(***************************************************************************)
\* the paths /api/environmental/<type> that are registered
EnvRoutes == {"aqi", "water", "weather"}

\* res.json of a snapshot: the Date of every level is sent as its ISO string
SnapshotJSON(data) ==
    IF "daily" \in DOMAIN data
    THEN [daily |-> [j \in 1..Len(data.daily) |->
            [f \in DOMAIN data.daily[j] |->
                IF data.daily[j][f].k = "date"
                THEN [k |-> "string", s |-> "ISO-8601",
                      t |-> data.daily[j][f].t, days |-> data.daily[j][f].days]
                ELSE data.daily[j][f]]]]
    ELSE ToJSON(data)

\* the error texts of the three catch clauses
EnvError(type) ==
    IF type = "aqi" THEN Str("Failed to fetch AQI data")
    ELSE IF type = "water" THEN Str("Failed to fetch water quality data")
    ELSE Str("Failed to fetch weather data")

\* an environmental handler that asked for a session first
EnvRouteStatus_SessionFirst(caller, raised) ==
    IF ~IsAuthenticated(caller) THEN 401
    ELSE IF raised THEN 500 ELSE 200

\* the status an environmental handler ends with
EnvRouteStatus(caller, raised) ==
    IF raised THEN 500 ELSE 200

\* GET /api/environmental/<type> up to its await; the promise is resolved
\* with the store's record or rejected
GetEnvironmental ==
    \E caller \in Callers, type \in EnvRoutes, raised \in BOOLEAN :
        /\ Cardinality(reqs) < MaxReqs
        /\ reqs' = reqs \cup
              {[method |-> "GET", path |-> type, caller |-> caller,
                raised |-> raised,
                held |-> IF raised THEN <<>>
                         ELSE <<getEnvironmentalData(type)>>]}
        /\ UNCHANGED <<users, alerts, currentId, now, intColumn,
                       environmentalData, proc, component, dashboard,
                       response, last>>

\* GET /api/environmental/<type> after its await: res.json(data), or the
\* catch clause
GetEnvironmentalResume ==
    \E r \in reqs :
        LET status == EnvRouteStatus(r.caller, r.raised) IN
        /\ reqs' = reqs \ {r}
        /\ response' =
              [method |-> "GET", path |-> r.path, caller |-> r.caller,
               status |-> status,
               payload |-> IF status = 200 THEN <<SnapshotJSON(r.held[1])>>
                           ELSE IF status = 500
                           THEN <<[error |-> EnvError(r.path)]>>
                           ELSE <<>>]
        /\ UNCHANGED <<users, alerts, currentId, now, intColumn,
                       environmentalData, proc, component, dashboard, last>>

EnvRouteNext ==
    \/ Register
    \/ GetEnvironmental
    \/ GetEnvironmentalResume

EnvRouteSpec == EnvInit /\ [][EnvRouteNext]_vars

\* C21: an environmental request is answered 200 with the provider's
\* snapshot whether or not it carries a session, 500 only when the provider
\* raised, and never 401.
C21_PublicRoutes ==
    /\ []("path" \in DOMAIN response => response.status \in {200, 500})
    /\ [][\A r \in reqs :
            r \notin reqs' =>
                /\ response'.path = r.path
                /\ response'.caller = r.caller
                /\ (response'.status = 500) = r.raised
                /\ ~r.raised =>
                      /\ response'.status = 200
                      /\ response'.payload =
                            <<SnapshotJSON(getEnvironmentalData(r.path))>>
       ]_vars

\* a request without a session was answered 200 with the weather snapshot
\* while a user was registered
C21_Witness ==
    /\ "path" \in DOMAIN response
    /\ response.caller = 0
    /\ response.status = 200
    /\ response.path = "weather"
    /\ Len(response.payload[1].daily) = ForecastDays
    /\ Len(users) >= 1

(***************************************************************************)
(* UserSpec: all six methods of MemStorage called directly.  createUser    *)
(* is called with any username, taken or not: the method does not look.    *)
(***************************************************************************)
\* getUser(id): the value returned
getUser(id) == MapGet(users, id)

\* getUserByUsername(username): Array.prototype.find gives the first user of
\* that name in the Map's order, or undefined
getUserByUsername(username) ==
    LET found == SelectSeq(MapValues(users),
                           LAMBDA user : user.username = username)
    IN  IF found = <<>> THEN Undefined ELSE Head(found)

\* the usernames asked for: those given to createUser and one never given
UsernameArgs == {Str(u) : u \in Usernames \cup {"carol"}}

CallGetUser ==
    \E id \in 1..(MaxId + 1) :
        /\ last' = [op |-> "getUser", arg |-> [id |-> Num(id)],
                    ret |-> <<getUser(id)>>]
        /\ UNCHANGED <<users, alerts, currentId, now, intColumn,
                       environmentalData, proc, component, dashboard, reqs,
                       response>>

CallGetUserByUsername ==
    \E username \in UsernameArgs :
        /\ last' = [op |-> "getUserByUsername",
                    arg |-> [username |-> username],
                    ret |-> <<getUserByUsername(username)>>]
        /\ UNCHANGED <<users, alerts, currentId, now, intColumn,
                       environmentalData, proc, component, dashboard, reqs,
                       response>>

\* the categories asked of getEnvironmentalData here
CallGetCategoryData ==
    \E type \in EnvRoutes :
        /\ last' = [op |-> "getEnvironmentalData", arg |-> [type |-> Str(type)],
                    ret |-> <<getEnvironmentalData(type)>>]
        /\ UNCHANGED <<users, alerts, currentId, now, intColumn,
                       environmentalData, proc, component, dashboard, reqs,
                       response>>

UserNext ==
    \/ CallCreateUser
    \/ CallCreateAlert
    \/ CallGetUser
    \/ CallGetUserByUsername
    \/ CallGetAlertsByUser
    \/ CallGetCategoryData

UserSpec == StoreInit /\ [][UserNext]_vars

\* the stored users, in the Map's order
StoredUsers == MapValues(users)

\* the step is a call of createUser
CreateUserStep == last' # last /\ last'.op = "createUser"

\* C22 as stated: in every state reached by calls of createUser, no two user
\* records have the same username.
C22_UniqueUsernames ==
    \A i, j \in 1..Len(users) :
        i # j => users[i].value.username # users[j].value.username

\* C23 as stated: createUser(u) returns a record with an id no user had, the
\* given username, password and email, and isAdmin false; from then on
\* getUser(id) and getUserByUsername(u.username) return that record.
C23_UserRoundTrip ==
    /\ [](\A i \in 1..Len(users) :
            LET user == users[i].value IN
            /\ getUser(user.id.n) = user
            /\ getUserByUsername(user.username) = user)
    /\ [][\A insertUser \in InsertUsers :
            (CreateUserStep /\ last'.arg = insertUser) =>
                LET user == last'.ret[1] IN
                /\ \A i \in 1..Len(users) : users[i].value.id # user.id
                /\ user.username = insertUser.username
                /\ user.password = insertUser.password
                /\ user.email = insertUser.email
                /\ user.isAdmin = Bool(FALSE)
                /\ DOMAIN user = {"id", "username", "password", "email",
                                  "isAdmin"}
       ]_vars

\* the ids of the records of sequence q, in its order
IdsOf(q) == [i \in 1..Len(q) |-> q[i].id.n]

\* the sequence of numbers is strictly ascending
Ascending(ids) == \A i, j \in 1..Len(ids) : i < j => ids[i] < ids[j]

\* C24: getAlertsByUser(u) returns u's alerts in the order of their creation,
\* which is strictly ascending id order, however the creations of different
\* users were interleaved: each created alert has an id above every id
\* stored and comes last in its owner's listing, behind the alerts listed
\* before, which keep their order.
C24_CreationOrder ==
    /\ [](/\ \A u \in UserIdArgs : Ascending(IdsOf(getAlertsByUser(u)))
          /\ last.op = "getAlertsByUser" => Ascending(IdsOf(last.ret)))
    /\ [][\A u \in UserIdArgs :
            (CreateAlertStep /\ last'.ret[1].userId = u) =>
                LET new == last'.ret[1]
                    before == getAlertsByUser(u)
                    after == getAlertsByUser(u)'
                IN  /\ \A j \in 1..Len(alerts) :
                          alerts[j].value.id.n < new.id.n
                    /\ Len(after) = Len(before) + 1
                    /\ after[Len(after)] = new
                    /\ \A i \in 1..Len(before) : after[i] = before[i]
       ]_vars

\* a user's listing holds two alerts between whose creations another user's
\* alert was created
C24_Witness ==
    /\ last.op = "getAlertsByUser"
    /\ Len(last.ret) = 2
    /\ \E j \in 1..Len(StoredAlerts) :
          /\ StoredAlerts[j].userId # last.arg.userId
          /\ last.ret[1].id.n < StoredAlerts[j].id.n
          /\ StoredAlerts[j].id.n < last.ret[2].id.n

\* the step is a call of createUser or of createAlert
CreateStep == CreateUserStep \/ CreateAlertStep

\* C25: one counter, starting at 1, gives the ids of users and alerts: the
\* k-th call of createUser or createAlert, counted together, receives id k,
\* so ids increase strictly in call order and no user id is an alert id;
\* currentId is 1 + the number of users + the number of alerts and exceeds
\* every stored id.
C25_OneCounter ==
    /\ [](/\ currentId = 1 + Len(users) + Len(alerts)
          /\ \A i \in 1..Len(users) :
                /\ users[i].value.id = Num(users[i].key)
                /\ users[i].key < currentId
                /\ \A j \in 1..Len(alerts) : users[i].key # alerts[j].key
          /\ \A j \in 1..Len(alerts) :
                /\ alerts[j].value.id = Num(alerts[j].key)
                /\ alerts[j].key < currentId)
    /\ [][CreateStep =>
            /\ last'.ret[1].id = Num(Len(users) + Len(alerts) + 1)
            /\ Len(users') + Len(alerts') = Len(users) + Len(alerts) + 1
            /\ \A i \in 1..Len(users) : users[i].key < last'.ret[1].id.n
            /\ \A j \in 1..Len(alerts) : alerts[j].key < last'.ret[1].id.n
            /\ currentId' = last'.ret[1].id.n + 1
       ]_vars

\* the third call was a createUser that received id 3, after a user and an
\* alert had received ids 1 and 2 in either order
C25_Witness ==
    /\ last.op = "createUser"
    /\ last.ret[1].id = Num(3)
    /\ Len(users) = 2
    /\ Len(alerts) = 1
    /\ currentId = 4

\* the operations of the store that only read
Readers == {"getUser", "getUserByUsername", "getEnvironmentalData",
            "getAlertsByUser"}

\* C26: frame conditions.  getUser, getUserByUsername, getEnvironmentalData
\* and getAlertsByUser leave users, alerts, environmental data and currentId
\* as they were; createAlert adds one entry to the alert map and advances
\* currentId, and changes nothing else; createUser adds one entry to the user
\* map and advances currentId, and changes nothing else.
C26_Frame ==
    [][/\ (last' # last /\ last'.op \in Readers) =>
             UNCHANGED <<users, alerts, environmentalData, currentId>>
       /\ CreateAlertStep =>
             /\ UNCHANGED <<users, environmentalData>>
             /\ Len(alerts') = Len(alerts) + 1
             /\ SubSeq(alerts', 1, Len(alerts)) = alerts
             /\ currentId' # currentId
       /\ CreateUserStep =>
             /\ UNCHANGED <<alerts, environmentalData>>
             /\ Len(StoredUsers') = Len(StoredUsers) + 1
             /\ SubSeq(users', 1, Len(users)) = users
             /\ currentId' # currentId
    ]_vars

\* a user was created while the store held an alert, and was then found by
\* name
C26_Witness ==
    /\ last.op = "getUserByUsername"
    /\ last.ret[1] # Undefined
    /\ Len(alerts) >= 1
    /\ \E j \in 1..Len(alerts) : alerts[j].key < last.ret[1].id.n

(***************************************************************************)
(* AnswerSpec: the alert routes with every request kept on record.  In     *)
(* this specification reqs holds each request that arrived, numbered in    *)
(* order of arrival, with the handler's position (suspended at its await,  *)
(* or ended) and the statuses it has sent so far.  The store call of a     *)
(* request may succeed or be rejected.                                     *)
(***************************************************************************)
\* a POST handler that goes on after sendStatus(401)
PostAlertsRun_NoReturn(n, caller, body, fails) ==
    LET status == PostAlertsStatus(caller, body) IN
    IF status = 401
    THEN [n |-> n, method |-> "POST", caller |-> caller, pc |-> "await",
          sent |-> <<401>>, held |-> <<>>, raised |-> FALSE]
    ELSE IF status = 400
    THEN [n |-> n, method |-> "POST", caller |-> caller, pc |-> "done",
          sent |-> <<400>>, held |-> <<>>, raised |-> FALSE]
    ELSE [n |-> n, method |-> "POST", caller |-> caller, pc |-> "await",
          sent |-> <<>>, held |-> <<>>, raised |-> fails]

\* POST /api/alerts up to its await or its end: the n-th request as the
\* handler leaves it
PostAlertsRun(n, caller, body, fails) ==
    LET status == PostAlertsStatus(caller, body) IN
    IF status \in {401, 400}
    THEN [n |-> n, method |-> "POST", caller |-> caller, pc |-> "done",
          sent |-> <<status>>, held |-> <<>>, raised |-> FALSE]
    ELSE [n |-> n, method |-> "POST", caller |-> caller, pc |-> "await",
          sent |-> <<>>, held |-> <<>>, raised |-> fails]

\* GET /api/alerts up to its await or its end
GetAlertsRun(n, caller, fails) ==
    IF ~IsAuthenticated(caller)
    THEN [n |-> n, method |-> "GET", caller |-> caller, pc |-> "done",
          sent |-> <<401>>, held |-> <<>>, raised |-> FALSE]
    ELSE [n |-> n, method |-> "GET", caller |-> caller, pc |-> "await",
          sent |-> <<>>, held |-> <<>>, raised |-> fails]

\* the status sent after the await: from the try block, or from the catch
\* clause when the store call was rejected
SettledStatus(r) ==
    IF r.method = "POST"
    THEN IF r.raised THEN 400 ELSE 201
    ELSE IF r.raised THEN 500 ELSE 200

AnswerPostAlerts ==
    \E caller \in Callers, body \in Bodies, fails \in BOOLEAN :
        LET run == PostAlertsRun(Cardinality(reqs) + 1, caller, body, fails)
            stores == PostAlertsStatus(caller, body) = 201 /\ ~fails
            r == createAlert(Spread(SchemaData(body), [userId |-> Num(caller)]))
        IN  /\ Cardinality(reqs) < MaxReqs
            /\ IF stores
               THEN /\ currentId <= MaxId
                    /\ ReadClock
                    /\ users' = r.users
                    /\ alerts' = r.alerts
                    /\ currentId' = r.currentId
                    /\ reqs' = reqs \cup {[run EXCEPT !.held = <<r.ret.id.n>>]}
               ELSE /\ reqs' = reqs \cup {run}
                    /\ UNCHANGED <<users, alerts, currentId, now>>
            /\ UNCHANGED <<intColumn, environmentalData, proc, component,
                           dashboard, response, last>>

AnswerGetAlerts ==
    \E caller \in Callers, fails \in BOOLEAN :
        LET run == GetAlertsRun(Cardinality(reqs) + 1, caller, fails) IN
        /\ Cardinality(reqs) < MaxReqs
        /\ reqs' = reqs \cup
              {IF run.pc = "await" /\ ~fails
               THEN [run EXCEPT !.held = IdsOf(getAlertsByUser(Num(caller)))]
               ELSE run}
        /\ UNCHANGED <<users, alerts, currentId, now, intColumn,
                       environmentalData, proc, component, dashboard,
                       response, last>>

\* a suspended handler resumes and sends its status
AnswerResume ==
    \E r \in reqs :
        /\ r.pc = "await"
        /\ reqs' = (reqs \ {r}) \cup
              {[r EXCEPT !.pc = "done",
                         !.sent = Append(@, SettledStatus(r))]}
        /\ UNCHANGED <<users, alerts, currentId, now, intColumn,
                       environmentalData, proc, component, dashboard,
                       response, last>>

AnswerNext ==
    \/ Register
    \/ AnswerPostAlerts
    \/ AnswerGetAlerts
    \/ AnswerResume

AnswerSpec == RoutesInit /\ [][AnswerNext]_vars

\* C27: every request to an alert route ends with exactly one response: a
\* POST with one of 401, 201, 400, a GET with one of 401, 200, 500; no
\* handler has sent two, none has ended having sent none, and a 201 is sent
\* only when the alert is already stored.
C27_ExactlyOneResponse ==
    /\ [](\A r \in reqs :
            /\ Len(r.sent) <= 1
            /\ r.pc = "done" => Len(r.sent) = 1
            /\ r.pc = "await" => r.sent = <<>>
            /\ r.sent # <<>> =>
                  r.sent[1] \in (IF r.method = "POST" THEN {401, 201, 400}
                                 ELSE {401, 200, 500}))
    /\ [][\A r \in reqs' \ reqs :
            201 \in {r.sent[i] : i \in 1..Len(r.sent)} =>
                /\ Len(r.held) = 1
                /\ \E j \in 1..Len(alerts) :
                      /\ alerts[j].key = r.held[1]
                      /\ alerts[j].value.userId = Num(r.caller)
       ]_vars

\* a POST was answered 201 and a GET whose store call was rejected was
\* answered 500
C27_Witness ==
    /\ \E r \in reqs : r.method = "POST" /\ r.pc = "done" /\ r.sent = <<201>>
    /\ \E r \in reqs : r.method = "GET" /\ r.pc = "done" /\ r.sent = <<500>>

(***************************************************************************)
(* StartupSpec: the server process.  index.ts runs from its first          *)
(* statement; process.exit ends it at once.  Once the server listens, the  *)
(* environmental routes are served as in EnvRouteSpec.                     *)
(***************************************************************************)
\* process.env.SESSION_SECRET: not set, empty, blank, or a key
SecretValues == {Undefined, Str(""), Str(" "), Str("development-key")}

\* what registerRoutes installs on the app, in its order
RouteStack ==
    <<"setupAuth", "GET /api/environmental/aqi", "GET /api/environmental/water",
      "GET /api/environmental/weather", "POST /api/alerts", "GET /api/alerts">>

\* a check that asks only whether the variable is set
SecretOk_IsSet(secret) == secret # Undefined

\* the negation of the condition of line 16: the secret is truthy, a string
\* and not of length 0
SecretOk(secret) ==
    /\ secret # Undefined
    /\ secret # Str("")
    /\ secret.k = "string"

\* lines 8-15: express.json and urlencoded are installed and the variable is
\* read
StartProcess ==
    \E secret \in SecretValues :
        /\ proc.pc = "start"
        /\ proc' = [proc EXCEPT !.pc = "check", !.secret = secret,
                                !.stack = <<"json", "urlencoded">>]
        /\ UNCHANGED <<users, alerts, currentId, now, intColumn,
                       environmentalData, reqs, response, last, component,
                       dashboard>>

\* lines 16-37
CheckSecret ==
    /\ proc.pc = "check"
    /\ proc' = IF SecretOk(proc.secret)
               THEN [proc EXCEPT !.pc = "session"]
               ELSE [proc EXCEPT !.pc = "exited", !.exitCode = Num(1)]
    /\ UNCHANGED <<users, alerts, currentId, now, intColumn,
                   environmentalData, reqs, response, last, component,
                   dashboard>>

\* lines 40-80: the session middleware and the logging middleware
InstallSession ==
    /\ proc.pc = "session"
    /\ proc' = [proc EXCEPT !.pc = "routes",
                            !.stack = @ \o <<"session", "logging">>]
    /\ UNCHANGED <<users, alerts, currentId, now, intColumn,
                   environmentalData, reqs, response, last, component,
                   dashboard>>

\* lines 82-85 and 108-111: registerRoutes, or what it threw is caught
RegisterRoutes ==
    \E throws \in BOOLEAN :
        /\ proc.pc = "routes"
        /\ proc' = IF throws
                   THEN [proc EXCEPT !.pc = "exited", !.exitCode = Num(1)]
                   ELSE [proc EXCEPT !.pc = "listen",
                                     !.stack = @ \o RouteStack]
        /\ UNCHANGED <<users, alerts, currentId, now, intColumn,
                       environmentalData, reqs, response, last, component,
                       dashboard>>

\* lines 87-111: the error middleware, the client's files, server.listen; a
\* failure of setupVite or serveStatic is caught
Listen ==
    \E throws \in BOOLEAN :
        /\ proc.pc = "listen"
        /\ proc' = IF throws
                   THEN [proc EXCEPT !.pc = "exited", !.exitCode = Num(1),
                                     !.stack = @ \o <<"error">>]
                   ELSE [proc EXCEPT !.pc = "listening", !.listening = TRUE,
                                     !.stack = @ \o <<"error", "static">>]
        /\ UNCHANGED <<users, alerts, currentId, now, intColumn,
                       environmentalData, reqs, response, last, component,
                       dashboard>>

\* requests reach the handlers only while the server listens
ServeRegister == proc.listening /\ Register

ServeGetEnvironmental == proc.listening /\ GetEnvironmental

ServeGetEnvironmentalResume == proc.listening /\ GetEnvironmentalResume

StartupNext ==
    \/ StartProcess
    \/ CheckSecret
    \/ InstallSession
    \/ RegisterRoutes
    \/ Listen
    \/ ServeRegister
    \/ ServeGetEnvironmental
    \/ ServeGetEnvironmentalResume

StartupSpec == RoutesInit /\ [][StartupNext]_vars

\* what is on the app is the session middleware or something of
\* registerRoutes
SessionOrRoute(name) ==
    name = "session" \/ \E i \in 1..Len(RouteStack) : RouteStack[i] = name

\* C28: the server registers its routes and listens only if SESSION_SECRET is
\* a non-empty string; when it is not set or empty, the process exits with
\* code 1 and neither the session middleware nor any route was installed.
C28_SecretRequired ==
    LET nonEmpty == proc.secret \in {Str(" "), Str("development-key")}
        installed == \E i \in 1..Len(proc.stack) : SessionOrRoute(proc.stack[i])
    IN  /\ (installed \/ proc.listening \/ reqs # {}
               \/ response # NoResponse) => nonEmpty
        /\ (proc.pc \notin {"start", "check"} /\ ~nonEmpty) =>
              /\ proc.pc = "exited"
              /\ proc.exitCode = Num(1)
              /\ ~installed
              /\ ~proc.listening

\* the process found SESSION_SECRET empty and has exited with code 1
C28_Witness ==
    /\ proc.pc = "exited"
    /\ proc.secret = Str("")
    /\ proc.exitCode = Num(1)
    /\ proc.stack = <<"json", "urlencoded">>

(***************************************************************************)
(* ConfigSpec: the client's AlertConfiguration component.  component holds *)
(* the values of its useState hooks and the handlers suspended at an       *)
(* await; a handler resumes when the promise it awaits is settled,         *)
(* fulfilled (ok) or rejected.  ConfigFairSpec adds that every request     *)
(* made is settled and that the effect of the first render runs.           *)
(***************************************************************************)
\* what fetchAlertConfigurations resolves with
Fetched == <<Str("configurations")>>

\* the changes made in the form: a threshold typed in, another parameter
\* chosen
InputEvents ==
    {[name |-> "threshold", value |-> Str("45")],
     [name |-> "parameter", value |-> Str("humidity")]}

\* the slot a new handler takes among those in flight
FreeSlot ==
    CHOOSE s \in 1..MaxReqs :
        /\ \A h \in component.handlers : h.slot # s
        /\ \A t \in 1..(s - 1) : \E h \in component.handlers : h.slot = t

\* a handler of the kind op at its first await
Handler(op) == [slot |-> FreeSlot, op |-> op, pc |-> "first", saved |-> FALSE]

\* loadAlertConfigurations after its await: the rest of the try block or the
\* catch clause, then finally
loadAlertConfigurationsEnd(c, ok) ==
    IF ok
    THEN [c EXCEPT !.alertConfigs = Fetched, !.error = Null,
                   !.loading = FALSE]
    ELSE [c EXCEPT !.error = Str("Failed to load alert configurations"),
                   !.loading = FALSE]

\* a handleSubmit whose catch clause is not followed by setLoading(false)
handleSubmitCatch_NoFinally(c) ==
    [c EXCEPT !.error = Str("Failed to save alert configuration")]

\* handleSubmit when saveAlertConfiguration was rejected: catch, then finally
handleSubmitCatch(c) ==
    [c EXCEPT !.error = Str("Failed to save alert configuration"),
              !.loading = FALSE]

\* handleSubmit after loadAlertConfigurations returned: the form is reset,
\* then finally
handleSubmitEnd(c) ==
    [c EXCEPT !.newConfig = DefaultConfig, !.loading = FALSE]

\* handleDelete when deleteAlertConfiguration was rejected: catch, then
\* finally
handleDeleteCatch(c) ==
    [c EXCEPT !.error = Str("Failed to delete alert configuration"),
              !.loading = FALSE]

\* the steps of the component leave the server and the page alone
ComponentStep ==
    UNCHANGED <<users, alerts, currentId, now, intColumn, environmentalData,
                reqs, response, last, proc, dashboard>>

\* useEffect(() => { loadAlertConfigurations() }, []): up to the await
Mount ==
    /\ ~component.mounted
    /\ component' = [component EXCEPT !.mounted = TRUE, !.loading = TRUE,
                                      !.handlers = @ \cup {Handler("load")}]
    /\ ComponentStep

handleInputChange ==
    \E e \in InputEvents :
        /\ component' = [component EXCEPT !.newConfig[e.name] = e.value]
        /\ ComponentStep

\* handleSubmit up to await saveAlertConfiguration
handleSubmit ==
    /\ component.mounted
    /\ Cardinality(component.handlers) < MaxReqs
    /\ component' = [component EXCEPT !.loading = TRUE,
                                      !.handlers = @ \cup {Handler("submit")}]
    /\ ComponentStep

\* handleDelete up to await deleteAlertConfiguration, when the user confirms;
\* otherwise nothing is done
handleDelete ==
    \E confirmed \in BOOLEAN :
        /\ component.mounted
        /\ component.alertConfigs # <<>>
        /\ Cardinality(component.handlers) < MaxReqs
        /\ component' = IF confirmed
                        THEN [component EXCEPT
                                 !.loading = TRUE,
                                 !.handlers = @ \cup {Handler("delete")}]
                        ELSE component
        /\ ComponentStep

\* the fetch of loadAlertConfigurations, called by the effect, is settled
LoadSettles ==
    \E h \in component.handlers, ok \in BOOLEAN :
        /\ h.op = "load"
        /\ component' =
              [loadAlertConfigurationsEnd(component, ok) EXCEPT
                  !.handlers = @ \ {h}]
        /\ ComponentStep

\* the first await of handleSubmit or handleDelete is settled: the handler
\* goes on into loadAlertConfigurations up to its await, or into its catch
\* clause and finally
FirstSettles ==
    \E h \in component.handlers, ok \in BOOLEAN :
        /\ h.op \in {"submit", "delete"}
        /\ h.pc = "first"
        /\ component' =
              IF ok
              THEN [component EXCEPT
                       !.loading = TRUE,
                       !.handlers = (@ \ {h}) \cup
                           {[h EXCEPT !.pc = "reload", !.saved = TRUE]}]
              ELSE [(IF h.op = "submit" THEN handleSubmitCatch(component)
                     ELSE handleDeleteCatch(component)) EXCEPT
                       !.handlers = @ \ {h}]
        /\ ComponentStep

\* the fetch of the loadAlertConfigurations called by handleSubmit or
\* handleDelete is settled: loadAlertConfigurations ends without throwing,
\* and the handler runs to its end
ReloadSettles ==
    \E h \in component.handlers, ok \in BOOLEAN :
        /\ h.pc = "reload"
        /\ component' =
              LET c == loadAlertConfigurationsEnd(component, ok) IN
              [(IF h.op = "submit" THEN handleSubmitEnd(c)
                ELSE [c EXCEPT !.loading = FALSE]) EXCEPT
                  !.handlers = @ \ {h}]
        /\ ComponentStep

ConfigNext ==
    \/ Mount
    \/ handleInputChange
    \/ handleSubmit
    \/ handleDelete
    \/ LoadSettles
    \/ FirstSettles
    \/ ReloadSettles

ConfigInit == RoutesInit /\ intColumn

ConfigSpec == ConfigInit /\ [][ConfigNext]_vars

\* the effect of the first render runs, and every request made is settled
ConfigFairSpec ==
    /\ ConfigSpec
    /\ WF_vars(Mount)
    /\ WF_vars(LoadSettles)
    /\ WF_vars(FirstSettles)
    /\ WF_vars(ReloadSettles)

\* C29: after the initial load and after every handleSubmit and handleDelete,
\* whether the save, the delete or the reload succeeds or fails, the loading
\* flag returns to false: it is false whenever no handler is in flight, and
\* whenever it is true it is false later.  The form is reset to its defaults
\* only by a handleSubmit whose save succeeded.
C29_LoadingReturns ==
    /\ []((component.mounted /\ component.handlers = {}) =>
             ~component.loading)
    /\ (component.loading ~> ~component.loading)
    /\ [][(component.newConfig # DefaultConfig
             /\ component'.newConfig = DefaultConfig) =>
            \E h \in component.handlers \ component'.handlers :
                /\ h.op = "submit"
                /\ h.saved
                /\ \A g \in component'.handlers : g.slot # h.slot
       ]_vars

\* a save failed while the form was edited: loading is false again, the
\* error is shown and the form keeps what was typed
C29_Witness ==
    /\ component.mounted
    /\ component.handlers = {}
    /\ ~component.loading
    /\ component.error = Str("Failed to save alert configuration")
    /\ component.newConfig.threshold = Str("45")

(***************************************************************************)
(* DashboardSpec: the client's EnvironmentalDashboard page.  dashboard     *)
(* holds the value of its useState hook, the number of refreshes started   *)
(* and the refreshes suspended at await Promise.all: for each, the         *)
(* requests fulfilled so far and whether one was rejected.  Promise.all is *)
(* fulfilled when all four requests are, and rejected with the first       *)
(* rejection.                                                              *)
(***************************************************************************)
\* the state's fields, each with the path its value is requested from
Endpoints ==
    [airQuality |-> "/api/air-quality", waterQuality |-> "/api/water-quality",
     weatherData |-> "/api/weather", alerts |-> "/api/alerts"]

Fields == DOMAIN Endpoints

\* the data of the response to the request of refresh n for a field
Data(n, f) == [from |-> n, path |-> Endpoints[f]]

\* a refresh that shows what arrived although a request was rejected
fetchRealTimeDataEnd_Settled(shown, r) ==
    [f \in Fields |-> IF f \in r.got THEN Data(r.n, f) ELSE shown[f]]

\* fetchRealTimeData after its await: the state it leaves, given the state
\* shown and the refresh r that resumes
fetchRealTimeDataEnd(shown, r) ==
    IF r.rejected THEN shown
    ELSE [f \in Fields |-> Data(r.n, f)]

\* the steps of the page leave the server and the component alone
DashboardStep ==
    UNCHANGED <<users, alerts, currentId, now, intColumn, environmentalData,
                reqs, response, last, proc, component>>

\* fetchRealTimeData up to its await, called by the effect or by the
\* interval: four requests are sent
fetchRealTimeData ==
    /\ dashboard.started < MaxId
    /\ Cardinality(dashboard.refreshes) < MaxReqs
    /\ dashboard' =
          [dashboard EXCEPT
              !.started = @ + 1,
              !.refreshes = @ \cup {[n |-> dashboard.started + 1, got |-> {},
                                     rejected |-> FALSE]}]
    /\ DashboardStep

\* a request of a refresh is fulfilled
RequestFulfils ==
    \E r \in dashboard.refreshes : \E f \in Fields \ r.got :
        /\ ~r.rejected
        /\ dashboard' =
              [dashboard EXCEPT
                  !.refreshes = (@ \ {r}) \cup
                      {[r EXCEPT !.got = @ \cup {f}]}]
        /\ DashboardStep

\* a request of a refresh is rejected: so is its Promise.all
RequestRejects ==
    \E r \in dashboard.refreshes : \E f \in Fields \ r.got :
        /\ ~r.rejected
        /\ dashboard' =
              [dashboard EXCEPT
                  !.refreshes = (@ \ {r}) \cup
                      {[r EXCEPT !.rejected = TRUE]}]
        /\ DashboardStep

\* a refresh whose Promise.all is settled resumes: setEnvironmentalData, or
\* the catch clause
RefreshResumes ==
    \E r \in dashboard.refreshes :
        /\ r.rejected \/ r.got = Fields
        /\ dashboard' =
              [dashboard EXCEPT
                  !.environmentalData = fetchRealTimeDataEnd(@, r),
                  !.refreshes = @ \ {r}]
        /\ DashboardStep

DashboardNext ==
    \/ fetchRealTimeData
    \/ RequestFulfils
    \/ RequestRejects
    \/ RefreshResumes

DashboardSpec == ConfigInit /\ [][DashboardNext]_vars

\* the four values as refresh n delivered them
AllFrom(n) ==
    [airQuality |-> [from |-> n, path |-> "/api/air-quality"],
     waterQuality |-> [from |-> n, path |-> "/api/water-quality"],
     weatherData |-> [from |-> n, path |-> "/api/weather"],
     alerts |-> [from |-> n, path |-> "/api/alerts"]]

\* C30: a refresh is all-or-nothing.  fetchRealTimeData replaces airQuality,
\* waterQuality, weatherData and alerts together, and only when all four of
\* its requests succeeded; when one failed, the state shown keeps all four
\* values it had, also when refreshes overlap.
C30_AllOrNothing ==
    /\ [](\/ dashboard.environmentalData = DashboardStart.environmentalData
          \/ \E n \in 1..dashboard.started :
                dashboard.environmentalData = AllFrom(n))
    /\ [][/\ dashboard'.environmentalData # dashboard.environmentalData =>
                \E r \in dashboard.refreshes \ dashboard'.refreshes :
                    /\ r.got = {"airQuality", "waterQuality", "weatherData",
                                "alerts"}
                    /\ ~r.rejected
                    /\ dashboard'.environmentalData = AllFrom(r.n)
          /\ \A r \in dashboard.refreshes \ dashboard'.refreshes :
                (r.rejected /\ \A q \in dashboard'.refreshes : q.n # r.n) =>
                    dashboard'.environmentalData = dashboard.environmentalData
       ]_vars

\* the page shows the four values of the first refresh after a later,
\* overlapping or following, refresh has ended too: that one failed, or the
\* first resumed after it
C30_Witness ==
    /\ dashboard.environmentalData = AllFrom(1)
    /\ dashboard.started >= 2
    /\ dashboard.refreshes = {}

====
